---- MODULE Spec2Model ----
(***************************************************************************)
(* Model of src/main.py, the weekly Unity Asset Store notifier.            *)
(*                                                                         *)
(* Time is wall-clock time in one zone, counted in minutes from a Monday   *)
(* 00:00 (datetime.weekday() gives 0 for Monday).  Money is counted in     *)
(* thousandths of a dollar, so that round(x, 2) has something to round.    *)
(* Strings are sequences of tokens; None is a value of its own.            *)
(***************************************************************************)
EXTENDS Integers, Sequences, FiniteSets, TLC

VARIABLES
    now,            \* the wall clock (Pacific time), in minutes
    file,           \* the content of SAVINGS_FILE on disk
    pc,             \* the position of the running main(), "idle" between runs
    run,            \* what the current invocation of main() has done so far
    runs,           \* the number of invocations started
    schedSendDays,  \* days of the scheduled runs that called update_all_contacts_fields
    nwArgs,         \* next_weekday_at_time: the arguments and the clock reading
    nwResult,       \* next_weekday_at_time: the value returned
    spPage,         \* scrape_asset_info: the page served
    spResult        \* scrape_asset_info: the tuple returned

mainVars   == <<now, file, pc, run, runs, schedSendDays>>
timeVars   == <<nwArgs, nwResult>>
scrapeVars == <<spPage, spResult>>
vars       == <<now, file, pc, run, runs, schedSendDays, nwArgs, nwResult, spPage, spResult>>

----------------------------------------------------------------------------
(* Bounds of the model *)

MaxRuns  == 2    \* invocations of main() in one behaviour
MaxDay   == 3    \* the clock stops advancing after this day (0 = Monday)
MaxSubs  == 1    \* subscribers whose update can succeed
MaxElems == 4    \* elements inside the promotion block
Window   == 1    \* minutes modelled on each side of a pivot time of day

----------------------------------------------------------------------------
(* Calendar arithmetic: datetime.weekday(), .time(), .date(), timedelta *)

MinutesPerDay == 24 * 60

DateOf(t)    == t \div MinutesPerDay
TimeOf(t)    == t % MinutesPerDay
WeekdayOf(t) == DateOf(t) % 7
Combine(date, tod) == date * MinutesPerDay + tod

Thursday   == 3
ExpiryTime == 8 * 60
CutoffTime == 8 * 60 + 30

\* The times of day the model distinguishes: around midnight, 08:00 and 08:30.
Near(m, p)  == m >= p - Window /\ m <= p + Window
TimesOfDay  == { m \in 0 .. MinutesPerDay - 1 :
                   \/ m <= Window
                   \/ m >= MinutesPerDay - 1 - Window
                   \/ Near(m, ExpiryTime)
                   \/ Near(m, CutoffTime) }

----------------------------------------------------------------------------
(* next_weekday_at_time, with the reading of datetime.now(tz) as a parameter *)

NextWeekdayAtTime_StrictMutant(weekday, target_time, t) ==
    LET d0 == (weekday - WeekdayOf(t) + 7) % 7
        days_ahead == IF d0 = 0 /\ TimeOf(t) > target_time THEN 7 ELSE d0
    IN  Combine(DateOf(t + days_ahead * MinutesPerDay), target_time)

NextWeekdayAtTime_NoWeekMutant(weekday, target_time, t) ==
    LET d0 == (weekday - WeekdayOf(t) + 7) % 7
        days_ahead == IF d0 = 0 /\ TimeOf(t) >= target_time THEN 1 ELSE d0
    IN  Combine(DateOf(t + days_ahead * MinutesPerDay), target_time)

NextWeekdayAtTime(weekday, target_time, t) ==
    LET d0 == (weekday - WeekdayOf(t) + 7) % 7
        days_ahead == IF d0 = 0 /\ TimeOf(t) >= target_time THEN 7 ELSE d0
        next_day == DateOf(t + days_ahead * MinutesPerDay)
    IN  Combine(next_day, target_time)

\* get_expiry_date: next Thursday 08:00 Pacific, moved to UTC.  The days of the
\* model lie in daylight time, when UTC is 7 hours ahead.  The text that
\* strftime makes of the instant is not modelled.
PacificOffset == 7 * 60
GetExpiryDate(t) == NextWeekdayAtTime(Thursday, ExpiryTime, t) + PacificOffset

----------------------------------------------------------------------------
(* Strings and None *)

None   == [none |-> TRUE,  s |-> <<>>]
Str(s) == [none |-> FALSE, s |-> s]

\* Python truthiness of an optional string: None and "" are false.
Truthy(v) == ~v.none /\ v.s # <<>>

RECURSIVE LStrip(_)
LStrip(s) == IF s # <<>> /\ Head(s) = " " THEN LStrip(Tail(s)) ELSE s

RECURSIVE RStrip(_)
RStrip(s) == IF s # <<>> /\ s[Len(s)] = " " THEN RStrip(SubSeq(s, 1, Len(s) - 1)) ELSE s

\* str.strip(), which get_text(strip=True) applies to an element's one string
Strip(s) == RStrip(LStrip(s))

ASSET_STORE_URL == <<"https://", "assetstore.unity.com">>

StartsWithHttps(s) == s # <<>> /\ Head(s) = "https://"

----------------------------------------------------------------------------
(* The savings file: what open() and json.load() make of it *)

JNum(n)   == [t |-> "num",     v |-> n]   \* a JSON number
JDate(d)  == [t |-> "date",    v |-> d]   \* the ISO string of date d
JStr      == [t |-> "str",     v |-> 0]   \* a string that is neither a number nor a date
JNull     == [t |-> "null",    v |-> 0]   \* null
JMissing  == [t |-> "missing", v |-> 0]   \* the key is not in the object

NotObject(kind) ==
    [kind |-> kind, total_savings |-> JMissing, total_assets |-> JMissing,
     total_cumulative_savings |-> JMissing, total_emails_sent |-> JMissing,
     last_run_date |-> JMissing]

FileAbsent     == NotObject("absent")      \* open() raises FileNotFoundError
FileUnreadable == NotObject("unreadable")  \* open() raises PermissionError
FileBadJson    == NotObject("badjson")     \* json.load raises JSONDecodeError
FileNonObject  == NotObject("nonobject")   \* valid JSON that is a list, a number, ...

Obj(s, a, c, e, l) ==
    [kind |-> "object", total_savings |-> s, total_assets |-> a,
     total_cumulative_savings |-> c, total_emails_sent |-> e, last_run_date |-> l]

\* float(x) and int(x) of a value taken from the object, 0 being the default of get
Converted(j) == IF j.t = "num" THEN j.v ELSE 0
ConvError(j) == CASE j.t = "null" -> "TypeError"
                  [] j.t \in {"str", "date"} -> "ValueError"
                  [] OTHER -> "none"

Zeros == <<0, 0, 0, 0>>
Returned(val) == [raised |-> "none", val |-> val]
Raised(exc)   == [raised |-> exc,    val |-> Zeros]

RECURSIVE FirstError(_)
FirstError(errs) ==
    IF errs = <<>> THEN "none"
    ELSE IF Head(errs) # "none" THEN Head(errs) ELSE FirstError(Tail(errs))

ReadTotalSavings(f) ==
    CASE f.kind = "absent"     -> Returned(Zeros)
      [] f.kind = "unreadable" -> Raised("PermissionError")
      [] f.kind = "badjson"    -> Returned(Zeros)
      [] f.kind = "nonobject"  -> Raised("AttributeError")
      [] OTHER ->
           LET keys == <<f.total_savings, f.total_assets,
                         f.total_cumulative_savings, f.total_emails_sent>>
               err  == FirstError([i \in 1..4 |-> ConvError(keys[i])])
           IN  CASE err = "none"      -> Returned([i \in 1..4 |-> Converted(keys[i])])
                 [] err = "TypeError" -> Returned(Zeros)
                 [] OTHER             -> Raised(err)

\* round(x, 2): the nearest cent.  Halfway between two cents the result depends
\* on the binary value of the float, so both neighbours are possible.
Round2(x) ==
    LET q == x \div 10
        r == x % 10
    IN  IF r < 5 THEN {10 * q}
        ELSE IF r > 5 THEN {10 * (q + 1)}
        ELSE {10 * q, 10 * (q + 1)}

\* save_total_savings: the contents the file can have afterwards
SaveTotalSavings(new_total, new_assets, new_cumulative_savings, new_emails_sent, t) ==
    { Obj(JNum(s), JNum(new_assets), JNum(c), JNum(new_emails_sent), JDate(DateOf(t))) :
        s \in Round2(new_total), c \in Round2(new_cumulative_savings) }

----------------------------------------------------------------------------
(* should_run_now *)

Answer(b)  == [raised |-> "none", val |-> b]
Failed(exc) == [raised |-> exc, val |-> FALSE]

\* last_run and last_run == today_str
RanToday(last_run, today) == last_run.t = "date" /\ last_run.v = today

ShouldRunNow(now_pt, f) ==
    IF WeekdayOf(now_pt) # Thursday THEN Answer(FALSE)
    ELSE IF TimeOf(now_pt) < CutoffTime THEN Answer(FALSE)
    ELSE CASE f.kind = "unreadable" -> Failed("PermissionError")
           [] f.kind = "nonobject"  -> Failed("AttributeError")
           [] f.kind = "object"     -> Answer(~RanToday(f.last_run_date, DateOf(now_pt)))
           [] OTHER                 -> Answer(TRUE)

----------------------------------------------------------------------------
(* scrape_asset_info: the promotion page and what BeautifulSoup finds in it *)

\* An element inside the promotion block, in document order.
Elem(tag, cls, text, src, href) ==
    [tag |-> tag, cls |-> cls, text |-> text, src |-> src, href |-> href]

H2Elem     == Elem("h2",   "",     <<" ", "Cool Asset", " ">>, None, None)
H2Other    == Elem("h2",   "",     <<"Other Asset">>, None, None)
H2Blank    == Elem("h2",   "",     <<" ">>, None, None)
ImgElem    == Elem("img",  "",     <<>>, Str(<<"https://", "cdn.example", "/cool.png">>), None)
ImgNoSrc   == Elem("img",  "",     <<>>, None, None)
LinkElem   == Elem("a",    "",     <<"Get it">>, None, Str(<<"/packages/cool">>))
LinkAbs    == Elem("a",    "",     <<"Get it">>, None,
                   Str(<<"https://", "assetstore.unity.com", "/packages/cool">>))
BodyElem   == Elem("div",  "body", <<" ", "A cool asset", " ">>, None, None)
SpanElem   == Elem("span", "",     <<"New">>, None, None)

ElementKinds == {H2Elem, H2Other, H2Blank, ImgElem, ImgNoSrc, LinkElem, LinkAbs,
                 BodyElem, SpanElem}

\* fetch: whether requests.get and raise_for_status succeed;
\* root: whether select_one(ASSET_PARENT_SELECTOR) finds the block.
Page(fetch, root, elems) == [fetch |-> fetch, root |-> root, elems |-> elems]
PageFetchFails == Page(FALSE, FALSE, <<>>)
PageNoRoot     == Page(TRUE, FALSE, <<>>)

\* Tag.find: the position of the first matching element, 0 for None
First(S) == IF S = {} THEN 0 ELSE CHOOSE i \in S : \A j \in S : i <= j

FindTag(elems, tag)   == First({i \in 1 .. Len(elems) : elems[i].tag = tag})
FindClass(elems, cls) == First({i \in 1 .. Len(elems) : elems[i].cls = cls})

AssetInfo(asset, image, description, url) ==
    [asset |-> asset, image |-> image, description |-> description, url |-> url]
NoAssetInfo == AssetInfo(None, None, None, None)

NameNotFound        == Str(<<"Asset Name Not Found">>)
DescriptionNotFound == Str(<<"Asset Description Not Found">>)
Empty               == Str(<<>>)

ScrapeAssetInfo_CoupledMutant(page) ==
    IF ~page.fetch \/ ~page.root THEN NoAssetInfo
    ELSE LET e  == page.elems
             n  == FindTag(e, "h2")
             im == FindTag(e, "img")
             a  == FindTag(e, "a")
             d  == FindClass(e, "body")
         IN  AssetInfo(
               IF n # 0 THEN Str(Strip(e[n].text)) ELSE NameNotFound,
               IF im # 0 THEN e[im].src ELSE Empty,
               IF d # 0 THEN Str(Strip(e[d].text)) ELSE DescriptionNotFound,
               IF a # 0 /\ im # 0 THEN e[a].href ELSE Empty)

ScrapeAssetInfo(page) ==
    IF ~page.fetch THEN NoAssetInfo
    ELSE IF ~page.root THEN NoAssetInfo
    ELSE LET e  == page.elems
             asset_name_element        == FindTag(e, "h2")
             asset_image_element       == FindTag(e, "img")
             asset_button_element      == FindTag(e, "a")
             asset_description_element == FindClass(e, "body")
         IN  AssetInfo(
               IF asset_name_element # 0
                 THEN Str(Strip(e[asset_name_element].text)) ELSE NameNotFound,
               IF asset_image_element # 0
                 THEN e[asset_image_element].src ELSE Empty,
               IF asset_description_element # 0
                 THEN Str(Strip(e[asset_description_element].text))
                 ELSE DescriptionNotFound,
               IF asset_button_element # 0
                 THEN e[asset_button_element].href ELSE Empty)

\* all([asset, description, image, url])
AllFound(info) ==
    Truthy(info.asset) /\ Truthy(info.description) /\ Truthy(info.image) /\ Truthy(info.url)

----------------------------------------------------------------------------
(* scrape_asset_price: the asset's page and the text of the price element *)

Dollar == [k |-> "$",    n |-> 0]
Blank  == [k |-> " ",    n |-> 0]
Word   == [k |-> "word", n |-> 0]   \* text that is not part of a number
Num(n) == [k |-> "num",  n |-> n]   \* a decimal literal, in thousandths

\* contents: the text of each child node of the price element, in order
PricePage(fetch, found, contents) == [fetch |-> fetch, found |-> found, contents |-> contents]

RECURSIVE Remove(_, _)
Remove(s, tok) ==
    IF s = <<>> THEN <<>>
    ELSE IF Head(s) = tok THEN Remove(Tail(s), tok)
    ELSE <<Head(s)>> \o Remove(Tail(s), tok)

RECURSIVE LStripTok(_)
LStripTok(s) == IF s # <<>> /\ Head(s) = Blank THEN LStripTok(Tail(s)) ELSE s

RECURSIVE RStripTok(_)
RStripTok(s) ==
    IF s # <<>> /\ s[Len(s)] = Blank THEN RStripTok(SubSeq(s, 1, Len(s) - 1)) ELSE s

StripTok(s) == RStripTok(LStripTok(s))

Price(v)       == [raised |-> "none", val |-> v]
PriceError(ex) == [raised |-> ex, val |-> 0]

\* float(text): a number when the text, spaces around it aside, is one literal
ParseFloat(text) ==
    LET t == StripTok(text)
    IN  IF Len(t) = 1 /\ t[1].k = "num" THEN Price(t[1].n) ELSE PriceError("ValueError")

\* The URL requested: a site-relative one is put after ASSET_STORE_URL.
PriceUrl(asset_url) ==
    IF StartsWithHttps(asset_url) THEN asset_url ELSE ASSET_STORE_URL \o asset_url

ScrapeAssetPrice(asset_url, page) ==
    IF ~page.fetch THEN Price(0)
    ELSE IF ~page.found THEN Price(0)
    ELSE IF page.contents = <<>> THEN PriceError("IndexError")
    ELSE LET price_text == StripTok(page.contents[Len(page.contents)])
         IN  ParseFloat(Remove(price_text, Dollar))

----------------------------------------------------------------------------
(* The inputs of a run of main(): environment, pages served, API outcomes *)

RunContexts == {"schedule", "workflow_dispatch", "unset"}

\* The subsequence of seq at the positions in S
Pick(seq, S) ==
    LET F[i \in 0 .. Len(seq)] ==
          IF i = 0 THEN <<>>
          ELSE IF i \in S THEN Append(F[i - 1], seq[i]) ELSE F[i - 1]
    IN  F[Len(seq)]

FullBlock == <<H2Elem, ImgElem, LinkElem, BodyElem>>

PromoPages ==
    {PageFetchFails, PageNoRoot}
      \cup { Page(TRUE, TRUE, Pick(FullBlock, (1 .. 4) \ {i})) : i \in 0 .. 4 }
      \cup { Page(TRUE, TRUE, <<H2Blank, ImgElem, LinkElem, BodyElem>>),
             Page(TRUE, TRUE, <<H2Elem, ImgNoSrc, LinkAbs, BodyElem>>),
             Page(TRUE, TRUE, <<SpanElem, H2Elem, ImgElem, LinkAbs, BodyElem>>) }

PricePages ==
    { PricePage(FALSE, FALSE, <<>>),                                   \* request fails
      PricePage(TRUE, FALSE, <<>>),                                    \* no price element
      PricePage(TRUE, TRUE, <<>>),                                     \* element without children
      PricePage(TRUE, TRUE, << <<Dollar, Num(4990)>> >>),              \* $4.99
      PricePage(TRUE, TRUE, << <<Dollar, Num(10000)>>,
                               <<Blank, Dollar, Num(1004), Blank>> >>),\* struck $10.00, then $1.004
      PricePage(TRUE, TRUE, << <<Dollar, Num(0)>> >>),                 \* $0.00
      PricePage(TRUE, TRUE, << <<Word>> >>),                           \* FREE
      PricePage(TRUE, TRUE, << <<Dollar, Num(4990)>>, <<>> >>) }       \* trailing empty text

\* Contents the savings file can have before the first run.  Day 3 of the
\* model is its Thursday, so JDate(Thursday) records a run on that day.
InitFiles ==
    { FileAbsent, FileUnreadable, FileBadJson, FileNonObject,
      Obj(JNum(0), JNum(0), JNum(0), JNum(0), JMissing),
      Obj(JNum(12340), JNum(2), JNum(24680), JNum(4), JDate(Thursday)),
      Obj(JNum(12340), JNull, JNum(24680), JNum(4), JNull),
      Obj(JNum(12340), JNum(2), JStr, JNum(4), JStr) }

\* The times of day at which the model lets something happen.
ClockTimes == {0, CutoffTime - 1, CutoffTime, MinutesPerDay - 1}
FirstDay   == Thursday - 1

----------------------------------------------------------------------------
(* main(): one action per step of the script *)

NoFields == [AssetName |-> None, AssetImage |-> None, AssetDescription |-> None,
             AssetURL |-> None, AssetExpiry |-> -1]

NoPricePage == PricePage(FALSE, FALSE, <<>>)

\* What an invocation has done so far.  exit is -1 while it runs.
NewRun(ctx, api_key, list_id, f) ==
    [ RUN_CONTEXT |-> ctx, API_KEY |-> api_key, LIST_ID |-> list_id,
      fileAtStart |-> f,
      gate |-> "none", gateNow |-> -1,
      page |-> PageFetchFails, fetchedPromo |-> FALSE, info |-> NoAssetInfo,
      notified |-> "no", fields |-> NoFields, successful_subscribers |-> 0,
      pricePage |-> NoPricePage, fetchedPrice |-> FALSE, priceUrl |-> <<>>,
      asset_price |-> Price(0), priceCalled |-> FALSE,
      read |-> Returned(Zeros), readCalled |-> FALSE,
      wrote |-> FALSE, raised |-> "none", exit |-> -1 ]

NoRun == NewRun("unset", FALSE, FALSE, FileAbsent)

Exit(r, code) == [r EXCEPT !.exit = code]
Abort(r, exc) == [r EXCEPT !.exit = 1, !.raised = exc]

\* The variables of the function-level specifications, when they are not in use
TimeIdle   == nwArgs = <<0, 0, 0>> /\ nwResult = -1
ScrapeIdle == spPage = PageFetchFails /\ spResult = [called |-> FALSE, info |-> NoAssetInfo]
MainIdle   == /\ now = 0 /\ file = FileAbsent /\ pc = "idle"
              /\ run = NoRun /\ runs = 0 /\ schedSendDays = <<>>

Init ==
    /\ now \in {Combine(FirstDay, t) : t \in ClockTimes}
    /\ file \in InitFiles
    /\ pc = "idle"
    /\ run = NoRun
    /\ runs = 0
    /\ schedSendDays = <<>>
    /\ TimeIdle
    /\ ScrapeIdle

\* The process is started: by the schedule, by hand, or with no context.
StartRun ==
    /\ pc = "idle"
    /\ runs < MaxRuns
    /\ \E ctx \in RunContexts, api_key \in BOOLEAN, list_id \in BOOLEAN :
         run' = NewRun(ctx, api_key, list_id, file)
    /\ runs' = runs + 1
    /\ pc' = "gate"
    /\ UNCHANGED <<now, file, schedSendDays, timeVars, scrapeVars>>

Gate_FallThroughMutant ==
    /\ pc = "gate"
    /\ IF run.RUN_CONTEXT = "schedule"
         THEN LET r == ShouldRunNow(now, file)
                  g == [run EXCEPT !.gateNow = now,
                                   !.gate = IF r.raised # "none" THEN "raise"
                                            ELSE IF r.val THEN "true" ELSE "false"]
              IN  IF r.raised # "none"
                    THEN run' = Abort(g, r.raised) /\ pc' = "done"
                    ELSE run' = g /\ pc' = "config"
         ELSE run' = [run EXCEPT !.gateNow = now] /\ pc' = "config"
    /\ UNCHANGED <<now, file, runs, schedSendDays, timeVars, scrapeVars>>

\* main, lines 238-251: the day and time check of a scheduled run.  gateNow
\* keeps the clock at this step, for every run context.
Gate ==
    /\ pc = "gate"
    /\ IF run.RUN_CONTEXT = "schedule"
         THEN LET r == ShouldRunNow(now, file)
                  g == [run EXCEPT !.gateNow = now,
                                   !.gate = IF r.raised # "none" THEN "raise"
                                            ELSE IF r.val THEN "true" ELSE "false"]
              IN  IF r.raised # "none"
                    THEN run' = Abort(g, r.raised) /\ pc' = "done"
                    ELSE IF ~r.val
                      THEN run' = Exit(g, 0) /\ pc' = "done"
                      ELSE run' = g /\ pc' = "config"
         ELSE run' = [run EXCEPT !.gateNow = now] /\ pc' = "config"
    /\ UNCHANGED <<now, file, runs, schedSendDays, timeVars, scrapeVars>>

\* main, lines 255-263: both credentials must be set
CheckConfig ==
    /\ pc = "config"
    /\ IF ~run.API_KEY \/ ~run.LIST_ID
         THEN run' = Exit(run, 2) /\ pc' = "done"
         ELSE run' = run /\ pc' = "scrape"
    /\ UNCHANGED <<now, file, runs, schedSendDays, timeVars, scrapeVars>>

\* main, lines 265-270: fetch the promotion page and stop when a field is false
Scrape ==
    /\ pc = "scrape"
    /\ \E page \in PromoPages :
         LET info == ScrapeAssetInfo(page)
             r    == [run EXCEPT !.page = page, !.fetchedPromo = TRUE, !.info = info]
         IN  IF ~AllFound(info)
               THEN run' = Exit(r, 3) /\ pc' = "done"
               ELSE run' = r /\ pc' = "notify"
    /\ UNCHANGED <<now, file, runs, schedSendDays, timeVars, scrapeVars>>

\* main, line 273, and update_all_contacts_fields: the contacts and the list
\* fields are updated, or the API client raises.
Notify ==
    /\ pc = "notify"
    /\ \E ok \in BOOLEAN, count \in 0 .. MaxSubs :
         LET fields == [AssetName |-> run.info.asset, AssetImage |-> run.info.image,
                        AssetDescription |-> run.info.description,
                        AssetURL |-> run.info.url,
                        AssetExpiry |-> GetExpiryDate(now)]
         IN  IF ok
               THEN /\ run' = [run EXCEPT !.notified = "sent", !.fields = fields,
                                          !.successful_subscribers = count]
                    /\ pc' = "price"
                    /\ schedSendDays' = IF run.RUN_CONTEXT = "schedule"
                                          THEN Append(schedSendDays, DateOf(run.gateNow))
                                          ELSE schedSendDays
               ELSE /\ count = 0
                    /\ run' = Abort([run EXCEPT !.notified = "failed"], "ApiError")
                    /\ pc' = "done"
                    /\ schedSendDays' = schedSendDays
    /\ UNCHANGED <<now, file, runs, timeVars, scrapeVars>>

\* main, line 275, and scrape_asset_price.  An exception other than
\* RequestException leaves scrape_asset_price and ends the run at line 287.
ScrapePrice ==
    /\ pc = "price"
    /\ \E page \in PricePages :
         LET p == ScrapeAssetPrice(run.info.url.s, page)
             r == [run EXCEPT !.pricePage = page, !.fetchedPrice = TRUE,
                              !.priceUrl = PriceUrl(run.info.url.s),
                              !.asset_price = p, !.priceCalled = TRUE]
         IN  IF p.raised # "none"
               THEN run' = Abort(r, p.raised) /\ pc' = "done"
               ELSE run' = r /\ pc' = "ledger"
    /\ UNCHANGED <<now, file, runs, schedSendDays, timeVars, scrapeVars>>

UpdateSavings_OverwriteMutant ==
    /\ pc = "ledger"
    /\ IF run.asset_price.val > 0
         THEN LET rd == ReadTotalSavings(file)
                  r  == [run EXCEPT !.read = rd, !.readCalled = TRUE]
                  price == run.asset_price.val
                  subs  == run.successful_subscribers
              IN  IF rd.raised # "none"
                    THEN run' = Abort(r, rd.raised) /\ file' = file
                    ELSE /\ file' \in SaveTotalSavings(price, rd.val[2] + 1,
                                          rd.val[3] + price * subs, rd.val[4] + subs, now)
                         /\ run' = Exit([r EXCEPT !.wrote = TRUE], 0)
         ELSE run' = Exit(run, 0) /\ file' = file
    /\ pc' = "done"
    /\ UNCHANGED <<now, runs, schedSendDays, timeVars, scrapeVars>>

\* main, lines 276-289: add to the totals when a price was found
UpdateSavings ==
    /\ pc = "ledger"
    /\ IF run.asset_price.val > 0
         THEN LET rd == ReadTotalSavings(file)
                  r  == [run EXCEPT !.read = rd, !.readCalled = TRUE]
                  current_savings            == rd.val[1]
                  current_assets             == rd.val[2]
                  current_cumulative_savings == rd.val[3]
                  current_emails_sent        == rd.val[4]
                  asset_price                == run.asset_price.val
                  successful_subscribers     == run.successful_subscribers
                  new_savings == current_savings + asset_price
                  new_assets  == current_assets + 1
                  new_cumulative_savings ==
                      current_cumulative_savings + asset_price * successful_subscribers
                  new_emails_sent == current_emails_sent + successful_subscribers
              IN  IF rd.raised # "none"
                    THEN run' = Abort(r, rd.raised) /\ file' = file
                    ELSE /\ file' \in SaveTotalSavings(new_savings, new_assets,
                                          new_cumulative_savings, new_emails_sent, now)
                         /\ run' = Exit([r EXCEPT !.wrote = TRUE], 0)
         ELSE run' = Exit(run, 0) /\ file' = file
    /\ pc' = "done"
    /\ UNCHANGED <<now, runs, schedSendDays, timeVars, scrapeVars>>

\* The process has exited; the next trigger starts a new one.
EndRun ==
    /\ pc = "done"
    /\ pc' = "idle"
    /\ run' = NoRun
    /\ UNCHANGED <<now, file, runs, schedSendDays, timeVars, scrapeVars>>

\* Time passes: between runs, and in a run before the reading of the clock that
\* is written to disk (save_total_savings, line 186).  A run is over before the
\* clock has moved twice.
NextClock(t) ==
    LET later == {c \in ClockTimes : c > TimeOf(t)}
    IN  IF later = {} THEN Combine(DateOf(t) + 1, First(ClockTimes))
        ELSE Combine(DateOf(t), First(later))

Tick ==
    /\ \/ pc = "idle"
       \/ pc = "ledger" /\ run.asset_price.val > 0 /\ now = run.gateNow
    /\ DateOf(NextClock(now)) <= MaxDay
    /\ now' = NextClock(now)
    /\ UNCHANGED <<file, pc, run, runs, schedSendDays, timeVars, scrapeVars>>

Next ==
    \/ StartRun
    \/ Gate
    \/ CheckConfig
    \/ Scrape
    \/ Notify
    \/ ScrapePrice
    \/ UpdateSavings
    \/ EndRun
    \/ Tick

Spec == Init /\ [][Next]_vars

----------------------------------------------------------------------------
(* next_weekday_at_time on its own: any target weekday, any target time of  *)
(* day and any reading of the clock in one week                              *)

Weekdays == 0 .. 6

InitTime ==
    /\ nwArgs \in { <<weekday, target_time, Combine(d, m)>> :
                      weekday \in Weekdays, target_time \in TimesOfDay,
                      d \in Weekdays, m \in TimesOfDay }
    /\ nwResult = -1
    /\ MainIdle
    /\ ScrapeIdle

CallNextWeekdayAtTime ==
    /\ nwResult = -1
    /\ nwResult' = NextWeekdayAtTime(nwArgs[1], nwArgs[2], nwArgs[3])
    /\ UNCHANGED <<nwArgs, mainVars, scrapeVars>>

NextTime == CallNextWeekdayAtTime

SpecTime == InitTime /\ [][NextTime]_vars

----------------------------------------------------------------------------
(* scrape_asset_info on its own: any block of up to MaxElems elements *)

Blocks == UNION { [1 .. n -> ElementKinds] : n \in 0 .. MaxElems }

InitScrape ==
    /\ spPage \in {PageFetchFails, PageNoRoot} \cup { Page(TRUE, TRUE, b) : b \in Blocks }
    /\ spResult = [called |-> FALSE, info |-> NoAssetInfo]
    /\ MainIdle
    /\ TimeIdle

CallScrapeAssetInfo ==
    /\ ~spResult.called
    /\ spResult' = [called |-> TRUE, info |-> ScrapeAssetInfo(spPage)]
    /\ UNCHANGED <<spPage, mainVars, timeVars>>

NextScrape == CallScrapeAssetInfo

SpecScrape == InitScrape /\ [][NextScrape]_vars

----------------------------------------------------------------------------
(* Properties *)

ScheduledRun == run.RUN_CONTEXT = "schedule"

\* C1: of the scheduled runs of one Pacific calendar day, at most one performs
\* the notification step: no day is the day of two scheduled runs that sent.
C1_OneScheduledSendPerDay ==
    \A i, j \in DOMAIN schedSendDays :
        i # j => schedSendDays[i] # schedSendDays[j]

\* The last run date the file records for should_run_now: none when the file
\* is missing, cannot be parsed or holds no date under the key.
HasLastRun(f, date) == f.kind = "object" /\ f.last_run_date = JDate(date)

ShouldRun(t, f) ==
    /\ WeekdayOf(t) = Thursday
    /\ TimeOf(t) >= CutoffTime
    /\ ~HasLastRun(f, DateOf(t))

\* C2: should_run_now returns true exactly when it is Thursday, 08:30 or
\* later, and the file's last_run_date is not today; otherwise it returns false.
C2_ShouldRunNowIff ==
    (ScheduledRun /\ run.gate # "none") =>
        /\ ShouldRun(run.gateNow, run.fileAtStart) => run.gate = "true"
        /\ ~ShouldRun(run.gateNow, run.fileAtStart) => run.gate = "false"

\* C3: next_weekday_at_time returns an instant on the target weekday, at the
\* target time of day, strictly later than the reading of the clock.
C3_NextOccurrenceInFuture ==
    nwResult # -1 =>
        /\ WeekdayOf(nwResult) = nwArgs[1]
        /\ TimeOf(nwResult) = nwArgs[2]
        /\ nwResult > nwArgs[3]

\* The clock reads exactly the target weekday and time, and the call returned.
C3_Witness ==
    /\ nwResult # -1
    /\ WeekdayOf(nwArgs[3]) = nwArgs[1]
    /\ TimeOf(nwArgs[3]) = nwArgs[2]

\* C4: the days advanced are (target - weekday + 7) mod 7, but 7 when that is 0
\* and the time of day is at or past the target; exactly at the target the
\* result is 7 days later, one minute before it the result is one minute later.
C4_DaysAdvanced ==
    nwResult # -1 =>
        LET weekday == nwArgs[1]
            target  == nwArgs[2]
            t       == nwArgs[3]
            d0      == (weekday - WeekdayOf(t) + 7) % 7
            days    == DateOf(nwResult) - DateOf(t)
        IN  /\ (d0 = 0 /\ TimeOf(t) >= target) => days = 7
            /\ ~(d0 = 0 /\ TimeOf(t) >= target) => days = d0
            /\ (d0 = 0 /\ TimeOf(t) = target) => nwResult = t + 7 * MinutesPerDay
            /\ (d0 = 0 /\ TimeOf(t) + 1 = target) => nwResult = t + 1

\* The clock reads one minute before the target on the target weekday.
C4_Witness ==
    /\ nwResult # -1
    /\ WeekdayOf(nwArgs[3]) = nwArgs[1]
    /\ TimeOf(nwArgs[3]) + 1 = nwArgs[2]
    /\ DateOf(nwResult) = DateOf(nwArgs[3])

\* All four field elements are in the block of the page served.
HasAllElements(page) ==
    /\ page.fetch /\ page.root
    /\ FindTag(page.elems, "h2") # 0 /\ FindTag(page.elems, "img") # 0
    /\ FindTag(page.elems, "a") # 0 /\ FindClass(page.elems, "body") # 0

\* C5: when a required field element is missing from the promotion block, the
\* run never calls update_all_contacts_fields and exits with code 3.
C5_MissingFieldAbortsRun ==
    (run.fetchedPromo /\ run.page.fetch /\ run.page.root /\ ~HasAllElements(run.page)) =>
        /\ run.notified = "no"
        /\ pc = "done" => run.exit = 3

Counters(f) == <<f.total_savings, f.total_assets,
                 f.total_cumulative_savings, f.total_emails_sent>>

\* The file is missing, or what it holds is not a ledger.
Malformed(f) ==
    \/ f.kind # "object"
    \/ \E i \in 1 .. 4 : Counters(f)[i].t \notin {"num", "missing"}

\* C6: read_total_savings never raises, and returns the all-zero ledger when
\* the file is missing or its content is malformed.
C6_ReadNeverFails ==
    run.readCalled =>
        /\ run.read.raised = "none"
        /\ Malformed(run.fileAtStart) => run.read.val = Zeros

\* The three failures of scrape_asset_price: the request fails, the price
\* element is missing, or the text of its last child is not a number once the
\* currency symbol is taken away.
PriceUnavailable(page) ==
    \/ ~page.fetch
    \/ ~page.found
    \/ /\ page.contents # <<>>
       /\ LET t == StripTok(Remove(StripTok(page.contents[Len(page.contents)]), Dollar))
          IN  ~(Len(t) = 1 /\ t[1].k = "num")

\* C7: when the price cannot be had (request fails, no element, last child not
\* a number) scrape_asset_price returns 0.0 and the run skips the savings
\* update instead of ending with the generic error.
C7_PriceFailureYieldsZero ==
    (run.priceCalled /\ PriceUnavailable(run.pricePage)) =>
        /\ run.asset_price = Price(0)
        /\ run.raised = "none"
        /\ pc = "done" => (run.exit = 0 /\ ~run.wrote)

\* A ledger as save_total_savings leaves it: an object with numeric counters.
IsLedger(f) == f.kind = "object" /\ \A i \in 1 .. 4 : Counters(f)[i].t \in {"num", "missing"}

\* C8: the file changes only in a run whose price is positive, and no counter
\* written is smaller than the one the ledger held before.
C8_LedgerMonotone ==
    [][ file' # file =>
          /\ pc = "ledger" /\ run.asset_price.raised = "none" /\ run.asset_price.val > 0
          /\ IsLedger(file')
          /\ IsLedger(file) =>
               \A i \in 1 .. 4 : Converted(Counters(file')[i]) >= Converted(Counters(file)[i])
      ]_vars

\* A run has added to a ledger that already held savings.
C8_Witness ==
    /\ pc = "done" /\ run.wrote
    /\ IsLedger(run.fileAtStart)
    /\ Converted(run.fileAtStart.total_savings) > 0
    /\ Converted(file.total_savings) > Converted(run.fileAtStart.total_savings)
    /\ Converted(file.total_emails_sent) > Converted(run.fileAtStart.total_emails_sent)

HasTag(tag)  == \E i \in 1 .. Len(spPage.elems) : spPage.elems[i].tag = tag
HasBody      == \E i \in 1 .. Len(spPage.elems) : spPage.elems[i].cls = "body"
IsFirstTag(i, tag) ==
    /\ spPage.elems[i].tag = tag
    /\ \A j \in 1 .. i - 1 : spPage.elems[j].tag # tag
IsFirstBody(i) ==
    /\ spPage.elems[i].cls = "body"
    /\ \A j \in 1 .. i - 1 : spPage.elems[j].cls # "body"

\* C9: with the block found, each of the four fields is its fallback exactly
\* when its element is absent, and otherwise the value of its first element,
\* whatever the other elements are.
C9_FieldsIndependent ==
    (spResult.called /\ spPage.fetch /\ spPage.root) =>
        LET r == spResult.info
            e == spPage.elems
        IN  /\ ~HasTag("h2")  => r.asset = NameNotFound
            /\ ~HasTag("img") => r.image = Empty
            /\ ~HasBody       => r.description = DescriptionNotFound
            /\ ~HasTag("a")   => r.url = Empty
            /\ \A i \in 1 .. Len(e) :
                 /\ IsFirstTag(i, "h2")  => r.asset = Str(Strip(e[i].text))
                 /\ IsFirstTag(i, "img") => r.image = e[i].src
                 /\ IsFirstBody(i)       => r.description = Str(Strip(e[i].text))
                 /\ IsFirstTag(i, "a")   => r.url = e[i].href

\* The block lacks the image and holds the other three elements.
C9_Witness ==
    /\ spResult.called /\ spPage.fetch /\ spPage.root
    /\ ~HasTag("img") /\ HasTag("h2") /\ HasTag("a") /\ HasBody
    /\ spResult.info.image = Empty
    /\ spResult.info.asset = Str(<<"Cool Asset">>)
    /\ spResult.info.url = Str(<<"/packages/cool">>)

\* C10: a scheduled run that should_run_now stops exits with code 0 having
\* fetched no page, updated no contact and left the savings file as it was.
C10_StoppedRunDoesNothing ==
    (pc = "done" /\ ScheduledRun /\ run.gate = "false") =>
        /\ run.exit = 0
        /\ ~run.fetchedPromo /\ ~run.fetchedPrice
        /\ run.notified = "no"
        /\ ~run.readCalled /\ ~run.wrote
        /\ file = run.fileAtStart

\* A scheduled run on Thursday after the cutoff was stopped: it had run today.
C10_Witness ==
    /\ pc = "done" /\ ScheduledRun /\ run.gate = "false"
    /\ WeekdayOf(run.gateNow) = Thursday /\ TimeOf(run.gateNow) >= CutoffTime
    /\ run.exit = 0

====
